---- MODULE Spec2Model ----
(***************************************************************************)
(* Model of the LINE chatbot relay: OpenAIService (openai_service.py),     *)
(* LineBot (line_bot.py) and the Flask handlers (app.py).                  *)
(*                                                                         *)
(* Text is a sequence of characters, each character a one-element string.  *)
(* Characters outside ASCII are named by their code point ("u4f60").       *)
(* A canned reply of the program is one opaque, non-empty chunk.           *)
(* A Python value is a record [tag, val]: tag is "str", "none" or "bool"   *)
(* and val is a sequence of strings.                                       *)
(***************************************************************************)
EXTENDS Integers, Sequences, FiniteSets, TLC

\* ------------------------------------------------------------------ bounds
MaxMsgLen == 2      \* length of the enumerated user messages
MaxEvents == 2      \* events carried by one webhook request

\* ------------------------------------------------------- Python values
Str(s) == [tag |-> "str", val |-> s]
NoneV == [tag |-> "none", val |-> <<>>]
Bool(b) == [tag |-> "bool", val |-> IF b THEN <<"True">> ELSE <<"False">>]

\* Python truthiness: None, False and the empty string are falsy.
Truthy(v) ==
    CASE v.tag = "none" -> FALSE
      [] v.tag = "bool" -> v.val = <<"True">>
      [] OTHER -> Len(v.val) > 0

\* Python `a or b`: the first operand when it is truthy, else the second.
PyOr(a, b) == IF Truthy(a) THEN a ELSE b

\* ----------------------------------------------------- string operations
\* str.lower() on one character; the inputs hold no other upper-case letter.
LowerChar(c) ==
    CASE c = "H" -> "h"
      [] c = "I" -> "i"
      [] c = "E" -> "e"
      [] c = "L" -> "l"
      [] c = "O" -> "o"
      [] c = "P" -> "p"
      [] OTHER -> c

\* str.lower()
Lower(s) == [i \in 1..Len(s) |-> LowerChar(s[i])]

IsSpace(c) == c \in {" ", "\n", "\t"}

RECURSIVE LStrip(_)
LStrip(s) == IF s # <<>> /\ IsSpace(Head(s)) THEN LStrip(Tail(s)) ELSE s

RECURSIVE RStrip(_)
RStrip(s) ==
    IF s # <<>> /\ IsSpace(s[Len(s)]) THEN RStrip(SubSeq(s, 1, Len(s) - 1)) ELSE s

\* str.strip()
Strip(s) == RStrip(LStrip(s))

\* s.startswith(w)
StartsWith(s, w) == Len(w) <= Len(s) /\ SubSeq(s, 1, Len(w)) = w

\* `w in s` for strings: w occurs as a contiguous substring of s.
Contains(s, w) ==
    \E i \in 0..(Len(s) - Len(w)) : SubSeq(s, i + 1, i + Len(w)) = w

\* any(word in s for word in words)
AnyIn(s, words) == \E k \in 1..Len(words) : Contains(s, words[k])

\* `s in words` for a list of strings (exact match of the whole string).
InList(s, words) == \E k \in 1..Len(words) : words[k] = s

\* s.replace(w, "") for a non-empty w: leftmost occurrences, not re-scanned.
RECURSIVE Remove(_, _)
Remove(s, w) ==
    IF s = <<>> THEN <<>>
    ELSE IF StartsWith(s, w) THEN Remove(SubSeq(s, Len(w) + 1, Len(s)), w)
    ELSE <<Head(s)>> \o Remove(Tail(s), w)

\* ------------------------------------------------------- keyword lists
\* The greeting list without its first entry.
GreetingCommandsNoHi ==
    << <<"h", "e", "l", "l", "o">>,
       <<"u4f60", "u597d">>,
       <<"u55e8">> >>

GreetingCommands ==
    << <<"h", "i">>,
       <<"h", "e", "l", "l", "o">>,
       <<"u4f60", "u597d">>,
       <<"u55e8">> >>

\* The help list without its first entry.
HelpCommandsNoHelp ==
    << <<"u5e6b", "u52a9">>,
       <<"u8aaa", "u660e">> >>

HelpCommands ==
    << <<"h", "e", "l", "p">>,
       <<"u5e6b", "u52a9">>,
       <<"u8aaa", "u660e">> >>

FallbackGreeting ==
    << <<"u4f60", "u597d">>,
       <<"u55e8">>,
       <<"h", "i">>,
       <<"h", "e", "l", "l", "o">>,
       <<"u54c8", "u56c9">> >>

FallbackHelp ==
    << <<"u5e6b", "u52a9">>,
       <<"u5e6b", "u5fd9">>,
       <<"h", "e", "l", "p">>,
       <<"u8aaa", "u660e">>,
       <<"u529f", "u80fd">> >>

FallbackTime ==
    << <<"u6642", "u9593">>,
       <<"u65e5", "u671f">>,
       <<"u73fe", "u5728">>,
       <<"t", "i", "m", "e">>,
       <<"d", "a", "t", "e">> >>

FallbackWeather ==
    << <<"u5929", "u6c23">>,
       <<"u6c23", "u6eab">>,
       <<"w", "e", "a", "t", "h", "e", "r">>,
       <<"u4e0b", "u96e8">> >>

FallbackThanks ==
    << <<"u8b1d", "u8b1d">>,
       <<"u611f", "u8b1d">>,
       <<"t", "h", "a", "n", "k">>,
       <<"u8b1d">> >>

FallbackGoodbye ==
    << <<"u518d", "u898b">>,
       <<"u63b0", "u63b0">>,
       <<"b", "y", "e">>,
       <<"g", "o", "o", "d", "b", "y", "e">>,
       <<"u62dc", "u62dc">> >>

\* ------------------------------------------------------- canned replies
UNAVAILABLE_REPLY == <<"[AI service unavailable, try later]">>
GREETING_REPLY == <<"[hello, I am your assistant, how can I help]">>
HELP_REPLY == <<"[help menu]">>
FINAL_FALLBACK_REPLY == <<"[AI service unavailable, try later or contact admin]">>
FB_GREETING_REPLY == <<"[fallback: hello, advanced AI unavailable]">>
FB_HELP_REPLY == <<"[fallback: assistance list, AI under maintenance]">>
FB_TIME_REPLY == <<"[fallback: cannot get the time]">>
FB_WEATHER_REPLY == <<"[fallback: cannot provide weather]">>
FB_THANKS_REPLY == <<"[fallback: you are welcome]">>
FB_GOODBYE_REPLY == <<"[fallback: goodbye]">>
FB_DEFAULT_REPLY == <<"[fallback: message received, advanced AI unavailable]">>
HF_PREFIX == <<"[AI reply:]">>
END_OF_TEXT == <<"<", "|", "e", "n", "d", "o", "f", "t", "e", "x", "t", "|", ">">>

\* ------------------------------------------------- the Fallback Responder
\* The rules with goodbye tested before thanks.
FallbackRulesGoodbyeFirst ==
    << [words |-> FallbackGreeting, reply |-> FB_GREETING_REPLY],
       [words |-> FallbackHelp,     reply |-> FB_HELP_REPLY],
       [words |-> FallbackTime,     reply |-> FB_TIME_REPLY],
       [words |-> FallbackWeather,  reply |-> FB_WEATHER_REPLY],
       [words |-> FallbackGoodbye,  reply |-> FB_GOODBYE_REPLY],
       [words |-> FallbackThanks,   reply |-> FB_THANKS_REPLY] >>

\* The keyword sets in the order the code tests them, with their replies.
FallbackRules ==
    << [words |-> FallbackGreeting, reply |-> FB_GREETING_REPLY],
       [words |-> FallbackHelp,     reply |-> FB_HELP_REPLY],
       [words |-> FallbackTime,     reply |-> FB_TIME_REPLY],
       [words |-> FallbackWeather,  reply |-> FB_WEATHER_REPLY],
       [words |-> FallbackThanks,   reply |-> FB_THANKS_REPLY],
       [words |-> FallbackGoodbye,  reply |-> FB_GOODBYE_REPLY] >>

RECURSIVE FirstRule(_, _, _)
FirstRule(rules, s, k) ==
    IF k > Len(rules) THEN FB_DEFAULT_REPLY
    ELSE IF AnyIn(s, rules[k].words) THEN rules[k].reply
    ELSE FirstRule(rules, s, k + 1)

\* OpenAIService._generate_fallback_response
GenerateFallbackResponse(user_message) ==
    FirstRule(FallbackRules, Lower(user_message), 1)

\* ------------------------------------------------------------ the inputs
Alphabet == {"h", "i", "H", "u8b1d"}

SampleMessages ==
    { <<"H", "E", "L", "L", "O">>,
      <<"u4f60", "u597d">>,
      <<"h", "e", "l", "p">>,
      <<"H", "e", "l", "p">>,
      <<"u8aaa", "u660e">>,
      <<"h", "e", "l", "p", " ", "m", "e">>,
      <<"t", "h", "a", "n", "k", " ", "b", "y", "e">>,
      <<"b", "y", "e", " ", "t", "h", "a", "n", "k">>,
      <<"u8b1d", "u518d", "u898b">>,
      <<"u62dc", "u62dc">>,
      <<"w", "e", "a", "t", "h", "e", "r", " ", "d", "a", "t", "e">>,
      <<"u73fe", "u5728">>,
      <<"a", "b", "c">> }

\* The user messages: every text over Alphabet up to MaxMsgLen, and the samples.
Messages ==
    SampleMessages \cup UNION {[1..n -> Alphabet] : n \in 0..MaxMsgLen}

\* The messages the webhook events carry.
WebhookMessages == { <<"h", "i">>, <<"a", "b", "c">> }

\* Environment values: a credential is absent ("") or present.
KeyValues(k) == { <<>>, <<k>> }

\* What the OpenAI client call does: raise, or return a message content.
OpenAIOutcomes ==
    { [kind |-> "exc", content |-> NoneV] } \cup
    { [kind |-> "ok", content |-> c] :
        c \in { NoneV, Str(<<>>), Str(<<" ">>), Str(<<" ", "A", " ">>) } }

\* What one Gemini generate_content call (and reading .text) does.
GeminiOutcomes ==
    { [kind |-> "exc", text |-> NoneV] } \cup
    { [kind |-> "ok", text |-> c] :
        c \in { Str(<<>>), Str(<<" ">>), Str(<<"G", " ">>) } }

\* Status of a GET (whoami, /api/tags): a status code, or the request raises.
ProbeOutcomes == {"200", "401", "exc"}

\* What one Hugging Face inference POST does: the request raises, or answers
\* with a status and a body. shape is the JSON the body decodes to:
\*   "gen"     [{"generated_text": text}]
\*   "nokey"   [{}]
\*   "empty"   []
\*   "dict"    {"error": ...}
\*   "notdict" ["..."]            (result[0].get raises)
\*   "badjson" response.json() raises
HFTexts ==
    { <<>>,
      <<" ", "a", "b", "c", "d", "e", " ">>,
      <<" ", "a", "b", "c", "d", "e", "f">>,
      END_OF_TEXT,
      <<"a", "b">> \o END_OF_TEXT \o <<"c", "\n">> }

HFOutcomes ==
    { [status |-> st, shape |-> "none", text |-> <<>>] :
        st \in {"exc", "503", "401", "500"} } \cup
    { [status |-> "200", shape |-> sh, text |-> <<>>] :
        sh \in {"nokey", "empty", "dict", "notdict", "badjson"} } \cup
    { [status |-> "200", shape |-> "gen", text |-> t] : t \in HFTexts }

\* What the Ollama generate POST does. shape: "resp" {"response": text},
\* "null" {"response": null}, "nokey" {}, "badjson".
OllamaOutcomes ==
    { [status |-> st, shape |-> "none", text |-> <<>>] : st \in {"exc", "500"} } \cup
    { [status |-> "200", shape |-> sh, text |-> <<>>] :
        sh \in {"null", "nokey", "badjson"} } \cup
    { [status |-> "200", shape |-> "resp", text |-> t] :
        t \in { <<>>, <<" ">>, <<" ", "L">> } }

\* What the LINE reply API call does.
ReplyOutcomes == {"ok", "api_error", "exc"}

GeminiModels == <<"gemini-1.5-flash", "gemini-1.5-pro", "gemini-pro">>
HFModels == <<"bigscience/bloom-560m", "distilgpt2", "gpt2">>

\* ------------------------------------------------------------- the state
VARIABLES
    svc,           \* OpenAIService fields: openai_key, gemini_key, hf_token, anthropic_key
    bot,           \* LineBot fields: channel_access_token, channel_secret
    pc,            \* position of the request being handled
    req,           \* the request: endpoint, signature verdict, kind of JSON body
    caller,        \* the handler that called generate_response
    user_message,  \* argument of generate_response
    model_idx,     \* index of the model loop of the Gemini / Hugging Face adapter
    ret,           \* return value of generate_response
    calls,         \* calls to the AI backends since the last entry into
                   \* generate_response (or by health_check), in order: [api, n],
                   \* n the index of the model asked
    adapters,      \* adapters that ran in this generate_response: [name, result]
    last,          \* the outbound call just made and what it did: [api, n, out]
    events,        \* parsed events of the webhook request
    ev_idx,        \* index of the event being processed
    replies,       \* calls of the LINE reply API: [reply_token, text, result]
    resp           \* HTTP response: [status, body]

vars ==
    << svc, bot, pc, req, caller, user_message, model_idx, ret, calls, adapters,
       last, events, ev_idx, replies, resp >>

\* What a call did, for the calls whose outcome is only a status.
StatusOnly(st) == [status |-> st, shape |-> "none", text |-> <<>>]
\* The log entry of the Ollama probe: n is 200 when it answered 200, else 0.
ProbeCall(p) == [api |-> "ollama_tags", n |-> IF p = "200" THEN 200 ELSE 0]
Call(api, n, out) == [api |-> api, n |-> n, out |-> out]
NoCall == Call("none", 0, StatusOnly("none"))
NoReq == [endpoint |-> "none", sig |-> "none", body |-> "none"]
NoResp == [status |-> 0, body |-> <<>>]

\* A plain-text body, and a JSON object body as its key/value pairs.
TextBody(t) == << [key |-> "", val |-> Str(t)] >>
JsonBody(pairs) == pairs

\* ----------------------------------------------------------- OpenAIService
\* self.openai_client: set in __init__ when the key is non-empty.
OpenAIClient(s) == Len(s.openai_key) > 0

\* OpenAIService._check_ollama on the outcome of GET /api/tags.
CheckOllama(p) == p = "200"

\* OpenAIService.is_configured; p is the outcome of the Ollama probe, made
\* only when every operand before it is falsy.
IsConfigured(s, p) ==
    PyOr(Bool(OpenAIClient(s)),
         PyOr(Str(s.hf_token),
              PyOr(Str(s.gemini_key),
                   PyOr(Str(s.anthropic_key), Bool(CheckOllama(p))))))

\* is_configured reaches _check_ollama.
ProbesOllama(s) ==
    ~OpenAIClient(s) /\ s.hf_token = <<>> /\ s.gemini_key = <<>>
        /\ s.anthropic_key = <<>>

\* The OpenAI block of generate_response on the outcome of the client call:
\* an exception falls through to the next service, anything else is returned.
OpenAIStep(o) ==
    IF o.kind = "exc" THEN [act |-> "next", val |-> NoneV]
    ELSE [act |-> "return",
          val |-> IF Truthy(o.content) THEN Str(Strip(o.content.val)) ELSE o.content]

\* One iteration of the model loop of _generate_with_gemini.
GeminiStep(o) ==
    IF o.kind = "exc" THEN [act |-> "continue", val |-> NoneV]
    ELSE IF Truthy(o.text) THEN [act |-> "return", val |-> Str(Strip(o.text.val))]
    ELSE [act |-> "continue", val |-> NoneV]

\* The whoami check of _generate_with_huggingface.
HFTokenValid(w) == w = "200"

\* generated_text of a decoded 200 body, "" when the key is missing.
HFGeneratedText(o) == IF o.shape = "gen" THEN o.text ELSE <<>>

\* The loop iteration with 401 handled like any other failing status.
HFModelStep401Continues(o) ==
    CASE o.status = "exc" -> [act |-> "continue", val |-> NoneV]
      [] o.status = "200" ->
            IF o.shape \in {"badjson", "notdict"}
            THEN [act |-> "continue", val |-> NoneV]
            ELSE IF o.shape \in {"gen", "nokey"}
                    /\ Len(HFGeneratedText(o)) > 0
                    /\ Len(Strip(HFGeneratedText(o))) > 5
            THEN [act |-> "return",
                  val |-> Str(HF_PREFIX \o Remove(Strip(HFGeneratedText(o)), END_OF_TEXT))]
            ELSE [act |-> "continue", val |-> NoneV]
      [] OTHER -> [act |-> "continue", val |-> NoneV]

\* One iteration of the model loop of _generate_with_huggingface.
HFModelStep(o) ==
    CASE o.status = "exc" -> [act |-> "continue", val |-> NoneV]
      [] o.status = "200" ->
            IF o.shape \in {"badjson", "notdict"}
            THEN [act |-> "continue", val |-> NoneV]
            ELSE IF o.shape \in {"gen", "nokey"}
                    /\ Len(HFGeneratedText(o)) > 0
                    /\ Len(Strip(HFGeneratedText(o))) > 5
            THEN [act |-> "return",
                  val |-> Str(HF_PREFIX \o Remove(Strip(HFGeneratedText(o)), END_OF_TEXT))]
            ELSE [act |-> "continue", val |-> NoneV]
      [] o.status = "503" -> [act |-> "continue", val |-> NoneV]
      [] o.status = "401" -> [act |-> "return", val |-> NoneV]
      [] OTHER -> [act |-> "continue", val |-> NoneV]

\* _generate_with_ollama after a successful probe, on the outcome of the POST.
OllamaStep(o) ==
    IF o.status = "200" /\ o.shape = "resp" THEN Str(Strip(o.text))
    ELSE IF o.status = "200" /\ o.shape = "nokey" THEN Str(<<>>)
    ELSE NoneV

\* The command tests of generate_response: "greeting", "help" or "none".
Command(m) ==
    IF InList(Lower(m), GreetingCommands) THEN "greeting"
    ELSE IF InList(Lower(m), HelpCommands) THEN "help"
    ELSE "none"

\* The tail of generate_response: the fallback responder, then the final message.
FallbackOrFinal(m) ==
    PyOr(Str(GenerateFallbackResponse(m)), Str(FINAL_FALLBACK_REPLY))

\* ------------------------------------------------------------------- Init
\* The state after both services are constructed from the environment.
Init ==
    /\ svc \in [ openai_key : KeyValues("sk-openai"),
                 gemini_key : KeyValues("gemini-key"),
                 hf_token : KeyValues("hf_token"),
                 anthropic_key : KeyValues("sk-ant") ]
    /\ bot \in [ channel_access_token : KeyValues("line-token"),
                 channel_secret : KeyValues("line-secret") ]
    /\ pc = "idle"
    /\ req = NoReq
    /\ caller = "none"
    /\ user_message = <<>>
    /\ model_idx = 0
    /\ ret = NoneV
    /\ calls = <<>>
    /\ adapters = <<>>
    /\ last = NoCall
    /\ events = <<>>
    /\ ev_idx = 0
    /\ replies = <<>>
    /\ resp = NoResp

\* ------------------------------------------------------ generate_response
\* Entry into generate_response(message) from handler h.
EnterGenerate(h, message) ==
    /\ caller' = h
    /\ user_message' = message
    /\ pc' = "gr_is_configured"
    /\ model_idx' = 0
    /\ ret' = NoneV
    /\ calls' = <<>>
    /\ adapters' = <<>>

\* An adapter ended with result r: generate_response returns r when it is
\* truthy and goes on to position nxt otherwise.
AdapterDone(name, r, nxt) ==
    /\ adapters' = Append(adapters, [name |-> name, result |-> r])
    /\ IF Truthy(r)
       THEN ret' = r /\ pc' = "gr_return"
       ELSE ret' = ret /\ pc' = nxt

\* `if not self.is_configured(): return <unavailable>`
GenIsConfigured ==
    /\ pc = "gr_is_configured"
    /\ \E p \in ProbeOutcomes :
        /\ IF ProbesOllama(svc)
           THEN /\ calls' = Append(calls, ProbeCall(p))
                /\ last' = Call("ollama_tags", 0, StatusOnly(p))
           ELSE /\ calls' = calls
                /\ last' = NoCall
        /\ IF Truthy(IsConfigured(svc, p))
           THEN pc' = "gr_commands" /\ ret' = ret
           ELSE pc' = "gr_return" /\ ret' = Str(UNAVAILABLE_REPLY)
    /\ UNCHANGED << svc, bot, req, caller, user_message, model_idx, adapters,
                    events, ev_idx, replies, resp >>

\* The greeting and help commands.
GenCommands ==
    /\ pc = "gr_commands"
    /\ CASE Command(user_message) = "greeting" ->
                ret' = Str(GREETING_REPLY) /\ pc' = "gr_return"
         [] Command(user_message) = "help" ->
                ret' = Str(HELP_REPLY) /\ pc' = "gr_return"
         [] OTHER -> ret' = ret /\ pc' = "gr_openai"
    /\ last' = NoCall
    /\ UNCHANGED << svc, bot, req, caller, user_message, model_idx, calls,
                    adapters, events, ev_idx, replies, resp >>

\* 1. OpenAI, when the client exists.
GenOpenAI ==
    /\ pc = "gr_openai"
    /\ IF OpenAIClient(svc)
       THEN \E o \in OpenAIOutcomes :
            /\ calls' = Append(calls, [api |-> "openai_chat", n |-> 0])
            /\ last' = Call("openai_chat", 0, StatusOnly(o.kind))
            /\ adapters' = Append(adapters,
                    [name |-> "openai", result |-> OpenAIStep(o).val])
            /\ IF OpenAIStep(o).act = "return"
               THEN ret' = OpenAIStep(o).val /\ pc' = "gr_return"
               ELSE ret' = ret /\ pc' = "gr_gemini"
       ELSE /\ pc' = "gr_gemini"
            /\ last' = NoCall
            /\ UNCHANGED << calls, adapters, ret >>
    /\ model_idx' = 1
    /\ UNCHANGED << svc, bot, req, caller, user_message, events, ev_idx,
                    replies, resp >>

\* 2. _generate_with_gemini: one step is the key test or one model of the loop.
GenGemini ==
    /\ pc = "gr_gemini"
    /\ IF svc.gemini_key = <<>>
       THEN /\ AdapterDone("gemini", NoneV, "gr_hf")
            /\ last' = NoCall
            /\ UNCHANGED << calls, model_idx >>
       ELSE \E o \in GeminiOutcomes :
            /\ calls' = Append(calls, [api |-> "gemini_generate", n |-> model_idx])
            /\ last' = Call("gemini_generate", model_idx, StatusOnly(o.kind))
            /\ IF GeminiStep(o).act = "return"
               THEN AdapterDone("gemini", GeminiStep(o).val, "gr_hf")
                    /\ model_idx' = model_idx
               ELSE IF model_idx < Len(GeminiModels)
               THEN model_idx' = model_idx + 1
                    /\ UNCHANGED << adapters, ret, pc >>
               ELSE AdapterDone("gemini", NoneV, "gr_hf")
                    /\ model_idx' = model_idx
    /\ UNCHANGED << svc, bot, req, caller, user_message, events, ev_idx,
                    replies, resp >>

\* 3. _generate_with_huggingface: the token test and the whoami check.
GenHFWhoami ==
    /\ pc = "gr_hf"
    /\ IF svc.hf_token = <<>>
       THEN /\ AdapterDone("huggingface", NoneV, "gr_ollama")
            /\ last' = NoCall
            /\ UNCHANGED calls
       ELSE \E w \in ProbeOutcomes :
            /\ calls' = Append(calls, [api |-> "hf_whoami", n |-> 0])
            /\ last' = Call("hf_whoami", 0, StatusOnly(w))
            /\ IF HFTokenValid(w)
               THEN pc' = "gr_hf_model" /\ UNCHANGED << adapters, ret >>
               ELSE AdapterDone("huggingface", NoneV, "gr_ollama")
    /\ model_idx' = 1
    /\ UNCHANGED << svc, bot, req, caller, user_message, events, ev_idx,
                    replies, resp >>

\* One model of the loop of _generate_with_huggingface.
GenHFModel ==
    /\ pc = "gr_hf_model"
    /\ \E o \in HFOutcomes :
        /\ calls' = Append(calls, [api |-> "hf_generate", n |-> model_idx])
        /\ last' = Call("hf_generate", model_idx, o)
        /\ IF HFModelStep(o).act = "return"
           THEN AdapterDone("huggingface", HFModelStep(o).val, "gr_ollama")
                /\ model_idx' = model_idx
           ELSE IF model_idx < Len(HFModels)
           THEN model_idx' = model_idx + 1
                /\ UNCHANGED << adapters, ret, pc >>
           ELSE AdapterDone("huggingface", NoneV, "gr_ollama")
                /\ model_idx' = model_idx
    /\ UNCHANGED << svc, bot, req, caller, user_message, events, ev_idx,
                    replies, resp >>

\* 4. _generate_with_ollama: the liveness probe.
GenOllamaProbe ==
    /\ pc = "gr_ollama"
    /\ \E p \in ProbeOutcomes :
        /\ calls' = Append(calls, ProbeCall(p))
        /\ last' = Call("ollama_tags", 0, StatusOnly(p))
        /\ IF CheckOllama(p)
           THEN pc' = "gr_ollama_generate" /\ UNCHANGED << adapters, ret >>
           ELSE AdapterDone("ollama", NoneV, "gr_fallback")
    /\ UNCHANGED << svc, bot, req, caller, user_message, model_idx, events,
                    ev_idx, replies, resp >>

\* _generate_with_ollama: the generate call.
GenOllamaGenerate ==
    /\ pc = "gr_ollama_generate"
    /\ \E o \in OllamaOutcomes :
        /\ calls' = Append(calls, [api |-> "ollama_generate", n |-> 0])
        /\ last' = Call("ollama_generate", 0, o)
        /\ AdapterDone("ollama", OllamaStep(o), "gr_fallback")
    /\ UNCHANGED << svc, bot, req, caller, user_message, model_idx, events,
                    ev_idx, replies, resp >>

\* The rule-based fallback and the final message.
GenFallback ==
    /\ pc = "gr_fallback"
    /\ ret' = FallbackOrFinal(user_message)
    /\ pc' = "gr_return"
    /\ last' = NoCall
    /\ UNCHANGED << svc, bot, req, caller, user_message, model_idx, calls,
                    adapters, events, ev_idx, replies, resp >>

\* ---------------------------------------------------------------- LineBot
\* LineBot.is_configured: line_bot_api and handler exist when both
\* credentials are non-empty.
LineIsConfigured(b) ==
    Len(b.channel_access_token) > 0 /\ Len(b.channel_secret) > 0

\* Events a webhook body can carry. reply_token is the position in the body.
EventShapes ==
    { [type |-> "message", mtype |-> "text", text |-> m] : m \in WebhookMessages }
    \cup { [type |-> "message", mtype |-> "image", text |-> <<>>],
           [type |-> "follow", mtype |-> "none", text |-> <<>>] }

EventLists == UNION {[1..n -> EventShapes] : n \in 0..MaxEvents}

\* What handler.parse does: InvalidSignatureError, another error on a
\* malformed body, or the events.
ParseOutcomes ==
    { [kind |-> k, events |-> <<>>] : k \in {"invalid_signature", "bad_body"} }
    \cup { [kind |-> "events", events |-> e] : e \in EventLists }

\* The event test without the message-type test.
IsTextMessageAnyMessage(e) == e.type = "message"

\* `event.type == 'message' and event.message.type == 'text'`
IsTextMessage(e) == e.type = "message" /\ e.mtype = "text"

\* The request is over: response r is sent.
Respond(r) ==
    /\ resp' = r
    /\ pc' = "done"

ErrorResponse == [status |-> 500, body |-> TextBody(<<"Error">>)]
OkResponse == [status |-> 200, body |-> TextBody(<<"OK">>)]

\* webhook(): parse_webhook. A signature has a verdict only when the handler
\* exists; an unconfigured LineBot raises before looking at it.
WebhookParse ==
    /\ pc = "idle"
    /\ IF ~LineIsConfigured(bot)
       THEN /\ req' = [endpoint |-> "webhook", sig |-> "unchecked", body |-> "none"]
            /\ Respond(ErrorResponse)
            /\ UNCHANGED << events, ev_idx >>
       ELSE \E o \in ParseOutcomes :
            CASE o.kind = "invalid_signature" ->
                    /\ req' = [endpoint |-> "webhook", sig |-> "invalid", body |-> "none"]
                    /\ Respond(ErrorResponse)
                    /\ UNCHANGED << events, ev_idx >>
              [] o.kind = "bad_body" ->
                    /\ req' = [endpoint |-> "webhook", sig |-> "valid", body |-> "malformed"]
                    /\ Respond(ErrorResponse)
                    /\ UNCHANGED << events, ev_idx >>
              [] OTHER ->
                    /\ req' = [endpoint |-> "webhook", sig |-> "valid", body |-> "events"]
                    /\ events' = o.events
                    /\ ev_idx' = 1
                    /\ pc' = "wh_loop"
                    /\ resp' = resp
    /\ UNCHANGED << svc, bot, caller, user_message, model_idx, ret, calls,
                    adapters, last, replies >>

\* webhook(): the head of the event loop.
WebhookEvent ==
    /\ pc = "wh_loop"
    /\ IF ev_idx > Len(events)
       THEN /\ Respond(OkResponse)
            /\ UNCHANGED << caller, user_message, model_idx, ret, calls, adapters,
                            ev_idx >>
       ELSE IF IsTextMessage(events[ev_idx])
       THEN /\ EnterGenerate("webhook", events[ev_idx].text)
            /\ UNCHANGED << resp, ev_idx >>
       ELSE /\ ev_idx' = ev_idx + 1
            /\ UNCHANGED << caller, user_message, model_idx, ret, calls, adapters,
                            pc, resp >>
    /\ last' = NoCall
    /\ UNCHANGED << svc, bot, req, events, replies >>

\* The reply step with a failed send logged and skipped: the loop goes on.
WebhookReplySwallowsFailure ==
    /\ pc = "gr_return"
    /\ caller = "webhook"
    /\ \E r \in ReplyOutcomes :
        /\ last' = Call("line_reply", ev_idx, StatusOnly(r))
        /\ replies' = Append(replies,
                [reply_token |-> ev_idx, text |-> ret, result |-> r])
        /\ ev_idx' = ev_idx + 1
        /\ pc' = "wh_loop"
        /\ resp' = resp
    /\ UNCHANGED << svc, bot, req, caller, user_message, model_idx, ret, calls,
                    adapters, events >>

\* webhook(): line_bot.reply_message(event.reply_token, ai_response).
WebhookReply ==
    /\ pc = "gr_return"
    /\ caller = "webhook"
    /\ IF ~LineIsConfigured(bot)
       THEN /\ Respond(ErrorResponse)
            /\ last' = NoCall
            /\ UNCHANGED << replies, ev_idx >>
       ELSE \E r \in ReplyOutcomes :
            /\ last' = Call("line_reply", ev_idx, StatusOnly(r))
            /\ replies' = Append(replies,
                    [reply_token |-> ev_idx, text |-> ret, result |-> r])
            /\ IF r = "ok"
               THEN ev_idx' = ev_idx + 1 /\ pc' = "wh_loop" /\ resp' = resp
               ELSE ev_idx' = ev_idx /\ Respond(ErrorResponse)
    /\ UNCHANGED << svc, bot, req, caller, user_message, model_idx, ret, calls,
                    adapters, events >>

\* Bodies of a POST to the test endpoint: not JSON (get_json gives None),
\* the empty object, or an object with a message.
TestBodies ==
    { [json |-> "none", message |-> <<>>], [json |-> "object", message |-> <<>>] }
    \cup { [json |-> "message", message |-> m] : m \in Messages }

\* test_message(): up to the call of generate_response.
TestMessage ==
    /\ pc = "idle"
    /\ \E b \in TestBodies :
        /\ req' = [endpoint |-> "test", sig |-> "none", body |-> b.json]
        /\ IF b.json = "none"
           THEN /\ Respond([status |-> 500,
                            body |-> JsonBody(<< [key |-> "error",
                                val |-> Str(<<"[AttributeError]">>)] >>)])
                /\ UNCHANGED << caller, user_message, model_idx, ret, calls, adapters >>
           ELSE IF b.message = <<>>
           THEN /\ Respond([status |-> 400,
                            body |-> JsonBody(<< [key |-> "error",
                                val |-> Str(<<"Message is required">>)] >>)])
                /\ UNCHANGED << caller, user_message, model_idx, ret, calls, adapters >>
           ELSE /\ EnterGenerate("test", b.message)
                /\ resp' = resp
    /\ UNCHANGED << svc, bot, last, events, ev_idx, replies >>

\* test_message(): jsonify({'response': response}).
TestMessageReturn ==
    /\ pc = "gr_return"
    /\ caller = "test"
    /\ Respond([status |-> 200,
                body |-> JsonBody(<< [key |-> "response", val |-> ret] >>)])
    /\ last' = NoCall
    /\ UNCHANGED << svc, bot, req, caller, user_message, model_idx, ret, calls,
                    adapters, events, ev_idx, replies >>

\* health_check()
HealthCheck ==
    /\ pc = "idle"
    /\ req' = [endpoint |-> "health", sig |-> "none", body |-> "none"]
    /\ \E p \in ProbeOutcomes :
        /\ IF ProbesOllama(svc)
           THEN /\ calls' = Append(calls, ProbeCall(p))
                /\ last' = Call("ollama_tags", 0, StatusOnly(p))
           ELSE /\ calls' = calls
                /\ last' = NoCall
        /\ Respond([status |-> 200,
                    body |-> JsonBody(<<
                        [key |-> "status", val |-> Str(<<"healthy">>)],
                        [key |-> "line_bot_configured",
                         val |-> Bool(LineIsConfigured(bot))],
                        [key |-> "openai_configured",
                         val |-> IsConfigured(svc, p)] >>)])
    /\ UNCHANGED << svc, bot, caller, user_message, model_idx, ret, adapters,
                    events, ev_idx, replies >>

\* The response is out; the server waits for the next request.
NextRequest ==
    /\ pc = "done"
    /\ pc' = "idle"
    /\ req' = NoReq
    /\ caller' = "none"
    /\ user_message' = <<>>
    /\ model_idx' = 0
    /\ ret' = NoneV
    /\ calls' = <<>>
    /\ adapters' = <<>>
    /\ last' = NoCall
    /\ events' = <<>>
    /\ ev_idx' = 0
    /\ replies' = <<>>
    /\ resp' = NoResp
    /\ UNCHANGED << svc, bot >>

Next ==
    \/ WebhookParse
    \/ WebhookEvent
    \/ WebhookReply
    \/ TestMessage
    \/ TestMessageReturn
    \/ HealthCheck
    \/ NextRequest
    \/ GenIsConfigured
    \/ GenCommands
    \/ GenOpenAI
    \/ GenGemini
    \/ GenHFWhoami
    \/ GenHFModel
    \/ GenOllamaProbe
    \/ GenOllamaGenerate
    \/ GenFallback

Spec == Init /\ [][Next]_vars

\* ================================================================= claims
Hi == <<"h", "i">>
NiHao == <<"u4f60", "u597d">>
HelpWord == <<"h", "e", "l", "p">>

Returned == pc = "gr_return"

\* The calls that ask a backend to generate text.
GenerationApis == {"openai_chat", "gemini_generate", "hf_generate", "ollama_generate"}
NoGenerationCall == \A i \in 1..Len(calls) : calls[i].api \notin GenerationApis

\* No Ollama probe of this invocation answered 200.
OllamaUnreachable ==
    \A i \in 1..Len(calls) : calls[i].api = "ollama_tags" => calls[i].n = 0

\* No adapter has what it needs: the three credentials and the local endpoint.
NoAdapterConfigured ==
    /\ svc.openai_key = <<>>
    /\ svc.gemini_key = <<>>
    /\ svc.hf_token = <<>>
    /\ OllamaUnreachable

\* is_configured() was truthy when generate_response tested it.
WasConfigured ==
    \/ svc.openai_key # <<>>
    \/ svc.hf_token # <<>>
    \/ svc.gemini_key # <<>>
    \/ svc.anthropic_key # <<>>
    \/ (Len(calls) > 0 /\ calls[1] = [api |-> "ollama_tags", n |-> 200])

AllNoResult == \A i \in 1..Len(adapters) : ~Truthy(adapters[i].result)

AdapterOrder == <<"openai", "gemini", "huggingface", "ollama">>
Rank(name) == CHOOSE k \in 1..Len(AdapterOrder) : AdapterOrder[k] = name

\* C1: generate_response returns a non-empty string for every message and
\* every configuration and backend outcome.
C1_ReturnsNonEmptyString ==
    Returned => (ret.tag = "str" /\ Len(ret.val) > 0)

\* C2: with no adapter configured (no OpenAI, Gemini or Hugging Face
\* credential, Ollama unreachable) generate_response returns the unavailable
\* message and makes no generation call.
C2_UnconfiguredIsUnavailable ==
    (Returned /\ NoAdapterConfigured) =>
        (ret = Str(UNAVAILABLE_REPLY) /\ NoGenerationCall)

\* C3 as stated: "hi" and "ni hao" get the greeting reply in every
\* configuration, without a backend call.
C3_GreetingAlways ==
    (Returned /\ user_message \in {Hi, NiHao}) =>
        (ret = Str(GREETING_REPLY) /\ NoGenerationCall)

\* C3 amended: "hi" and "ni hao" get the greeting reply without a generation
\* call whenever is_configured() is truthy, and the unavailable message when
\* it is not.
C3_GreetingWhenConfigured ==
    (Returned /\ user_message \in {Hi, NiHao}) =>
        /\ NoGenerationCall
        /\ adapters = <<>>
        /\ ret = IF WasConfigured THEN Str(GREETING_REPLY) ELSE Str(UNAVAILABLE_REPLY)

C3_Witness ==
    /\ Returned
    /\ user_message = NiHao
    /\ svc.gemini_key # <<>>
    /\ svc.openai_key = <<>>
    /\ ret = Str(GREETING_REPLY)

\* C4: for a message that is no command the adapters run in the order
\* OpenAI, Gemini, Hugging Face, Ollama; generate_response stops at the first
\* adapter that gives a non-empty text, returns that text, and runs no adapter
\* after it.
C4_FirstNonEmptyWins ==
    (Returned /\ WasConfigured /\ Command(user_message) = "none") =>
        LET n == Len(adapters) IN
        /\ \A i, j \in 1..n : i < j => Rank(adapters[i].name) < Rank(adapters[j].name)
        /\ \A i \in 1..n : i < n => ~Truthy(adapters[i].result)
        /\ (n > 0 /\ Truthy(adapters[n].result)) => ret = adapters[n].result
        /\ (n > 0 /\ ~Truthy(adapters[n].result)) => adapters[n].name = "ollama"

\* C5: when a backend is configured and every adapter gives no result,
\* generate_response returns the reply of the first keyword set, in the order
\* greeting, help, time/date, weather, thanks, goodbye, that has a token in the
\* lower-cased message, and the generic reply when no set has one.
C5_AllNoResultGivesFallback ==
    (Returned /\ WasConfigured /\ adapters # <<>> /\ AllNoResult) =>
        LET m == Lower(user_message) IN
        ret = Str(CASE AnyIn(m, FallbackGreeting) -> FB_GREETING_REPLY
                    [] AnyIn(m, FallbackHelp) -> FB_HELP_REPLY
                    [] AnyIn(m, FallbackTime) -> FB_TIME_REPLY
                    [] AnyIn(m, FallbackWeather) -> FB_WEATHER_REPLY
                    [] AnyIn(m, FallbackThanks) -> FB_THANKS_REPLY
                    [] AnyIn(m, FallbackGoodbye) -> FB_GOODBYE_REPLY
                    [] OTHER -> FB_DEFAULT_REPLY)

\* The fallback responder produced the return value: Ollama, the last
\* adapter, ran and gave nothing.
FallbackRan ==
    /\ Returned
    /\ adapters # <<>>
    /\ adapters[Len(adapters)].name = "ollama"
    /\ ~Truthy(adapters[Len(adapters)].result)

\* The message has a thanks token and a goodbye token and no token of the
\* four sets tested before them.
ThanksAndGoodbye(m) ==
    /\ AnyIn(Lower(m), FallbackThanks)
    /\ AnyIn(Lower(m), FallbackGoodbye)
    /\ ~AnyIn(Lower(m), FallbackGreeting)
    /\ ~AnyIn(Lower(m), FallbackHelp)
    /\ ~AnyIn(Lower(m), FallbackTime)
    /\ ~AnyIn(Lower(m), FallbackWeather)

\* C6 as stated: a message with a thanks token and a goodbye token gets the
\* goodbye reply from the fallback responder.
C6_GoodbyeBeforeThanks ==
    (FallbackRan /\ ThanksAndGoodbye(user_message)) => ret = Str(FB_GOODBYE_REPLY)

\* C6 amended: a message with a thanks token and a goodbye token (and no
\* token of an earlier set) gets the thanks reply: thanks is tested before
\* goodbye.
C6_ThanksBeforeGoodbye ==
    (FallbackRan /\ ThanksAndGoodbye(user_message)) => ret = Str(FB_THANKS_REPLY)

C6_Witness ==
    /\ FallbackRan
    /\ user_message = <<"b", "y", "e", " ", "t", "h", "a", "n", "k">>
    /\ ret = Str(FB_THANKS_REPLY)

\* Positions of the text-message events of the request.
TextEvents ==
    {i \in 1..Len(events) : events[i].type = "message" /\ events[i].mtype = "text"}

\* C7: the webhook answers an invalid signature with 500 "Error" and calls
\* neither generate_response nor the reply API; with a valid signature and
\* exactly one text-message event it calls the reply API exactly once, with
\* that event's reply token and the text generate_response returned; with a
\* valid signature and no event it answers 200 "OK" and sends no reply.
C7_Webhook ==
    /\ (req.endpoint = "webhook" /\ req.sig = "invalid") =>
            /\ pc = "done"
            /\ resp = [status |-> 500, body |-> TextBody(<<"Error">>)]
            /\ replies = <<>>
            /\ caller = "none"
            /\ calls = <<>>
    /\ (req.endpoint = "webhook" /\ req.sig = "valid" /\ req.body = "events"
            /\ Cardinality(TextEvents) = 1) =>
            /\ Len(replies) <= 1
            /\ pc = "done" =>
                /\ Len(replies) = 1
                /\ replies[1].reply_token \in TextEvents
                /\ replies[1].text = ret
                /\ caller = "webhook"
                /\ user_message = events[replies[1].reply_token].text
    /\ (req.endpoint = "webhook" /\ req.sig = "valid" /\ req.body = "events"
            /\ events = <<>>) =>
            /\ replies = <<>>
            /\ caller = "none"
            /\ pc = "done" => resp = [status |-> 200, body |-> TextBody(<<"OK">>)]

C7_Witness ==
    /\ pc = "done"
    /\ req.endpoint = "webhook"
    /\ req.sig = "valid"
    /\ Len(events) = 2
    /\ TextEvents = {1}
    /\ Len(replies) = 1
    /\ replies[1].result = "ok"
    /\ resp.status = 200

\* C8 as stated: the test endpoint answers {} with 400 and "Message is
\* required", and {"message": "help"} with 200 and the help menu in every
\* backend configuration.
C8_HelpAlways ==
    /\ (req.endpoint = "test" /\ req.body = "object") =>
            /\ pc = "done"
            /\ resp = [status |-> 400,
                       body |-> << [key |-> "error",
                                    val |-> Str(<<"Message is required">>)] >>]
    /\ (req.endpoint = "test" /\ pc = "done" /\ user_message = HelpWord) =>
            resp = [status |-> 200,
                    body |-> << [key |-> "response", val |-> Str(HELP_REPLY)] >>]

\* C8 amended: the test endpoint answers {} with 400 and "Message is
\* required", and {"message": "help"} with 200 and the help menu whenever
\* is_configured() is truthy, and with 200 and the unavailable message when it
\* is not.
C8_HelpWhenConfigured ==
    /\ (req.endpoint = "test" /\ req.body = "object") =>
            /\ pc = "done"
            /\ caller = "none"
            /\ resp = [status |-> 400,
                       body |-> << [key |-> "error",
                                    val |-> Str(<<"Message is required">>)] >>]
    /\ (req.endpoint = "test" /\ pc = "done" /\ user_message = HelpWord) =>
            /\ NoGenerationCall
            /\ resp = [status |-> 200,
                       body |-> << [key |-> "response",
                                    val |-> IF WasConfigured THEN Str(HELP_REPLY)
                                            ELSE Str(UNAVAILABLE_REPLY)] >>]

C8_Witness ==
    /\ req.endpoint = "test"
    /\ pc = "done"
    /\ user_message = HelpWord
    /\ svc.hf_token # <<>>
    /\ resp.status = 200
    /\ resp.body[1].val = Str(HELP_REPLY)

\* C9: the health endpoint answers status "healthy" with line_bot_configured
\* and openai_configured each a boolean.
C9_HealthBooleans ==
    (req.endpoint = "health" /\ pc = "done") =>
        /\ resp.status = 200
        /\ Len(resp.body) = 3
        /\ resp.body[1] = [key |-> "status", val |-> Str(<<"healthy">>)]
        /\ resp.body[2].key = "line_bot_configured"
        /\ resp.body[2].val.tag = "bool"
        /\ resp.body[3].key = "openai_configured"
        /\ resp.body[3].val.tag = "bool"

\* The Hugging Face adapter ended with result r.
HFDone(r) ==
    /\ adapters # <<>>
    /\ adapters[Len(adapters)] = [name |-> "huggingface", result |-> r]
    /\ IF Truthy(r) THEN pc = "gr_return" /\ ret = r ELSE pc = "gr_ollama"

\* The Hugging Face adapter is about to ask model i.
HFAsks(i) ==
    /\ pc = "gr_hf_model"
    /\ model_idx = i
    /\ \A k \in 1..Len(adapters) : adapters[k].name # "huggingface"

\* A 200 answer whose generated text, stripped, is longer than 5.
HFUsable(o) ==
    o.status = "200" /\ o.shape = "gen" /\ Len(Strip(o.text)) > 5

\* C10: the Hugging Face adapter gives no result and asks no model when
\* whoami is not 200; otherwise it asks the models in list order, goes to the
\* next model on 503, another non-200 status, an exception or a 200 without a
\* text longer than 5, gives up at once on 401, returns the first usable text,
\* and gives no result when the list is exhausted.
C10_HuggingFaceAdapter ==
    /\ last.api = "hf_whoami" =>
            /\ \A k \in 1..Len(calls) : calls[k].api # "hf_generate"
            /\ IF last.out.status = "200" THEN HFAsks(1) ELSE HFDone(NoneV)
    /\ last.api = "hf_generate" =>
            LET o == last.out
                i == last.n
                c == Len(calls)
            IN  /\ i \in 1..Len(HFModels)
                /\ c > i
                /\ calls[c - i].api = "hf_whoami"
                /\ \A k \in 1..i : calls[c - i + k] = [api |-> "hf_generate", n |-> k]
                /\ CASE HFUsable(o) ->
                            HFDone(Str(HF_PREFIX \o Remove(Strip(o.text), END_OF_TEXT)))
                     [] o.status = "401" -> HFDone(NoneV)
                     [] OTHER ->
                            IF i < Len(HFModels) THEN HFAsks(i + 1) ELSE HFDone(NoneV)

C10_Witness ==
    /\ last.api = "hf_generate"
    /\ last.n = 3
    /\ HFUsable(last.out)
    /\ pc = "gr_return"
    /\ ret.tag = "str"

\* A webhook request whose signature was accepted and whose body parsed.
ValidWebhook ==
    req.endpoint = "webhook" /\ req.sig = "valid" /\ req.body = "events"

\* The events whose reply the LINE API accepted.
Replied == {replies[k].reply_token : k \in {j \in 1..Len(replies) : replies[j].result = "ok"}}

\* The state part of C11.
C11_EventLoopState ==
    ValidWebhook =>
        LET n == Len(replies) IN
        \* replies follow the order of the events, one per text event at most,
        \* none for another event
        /\ \A k \in 1..n : replies[k].reply_token \in TextEvents
        /\ \A j, k \in 1..n : j < k => replies[j].reply_token < replies[k].reply_token
        \* a failed send is the last thing the loop did
        /\ \A k \in 1..n : k < n => replies[k].result = "ok"
        /\ (n > 0 /\ replies[n].result # "ok") =>
                (pc = "done" /\ ev_idx = replies[n].reply_token)
        \* every text event before the current one has its reply
        /\ ev_idx \in 1..(Len(events) + 1)
        /\ \A i \in TextEvents : i < ev_idx => i \in Replied
        /\ \A k \in 1..n : replies[k].reply_token <= ev_idx
        /\ pc = "done" =>
                /\ resp \in { [status |-> 200, body |-> TextBody(<<"OK">>)],
                              [status |-> 500, body |-> TextBody(<<"Error">>)] }
                /\ resp.status = 200 <=> Replied = TextEvents
                /\ resp.status = 500 =>
                        /\ n > 0
                        /\ replies[n].result # "ok"
                        /\ Replied = {i \in TextEvents : i < replies[n].reply_token}

\* C11: in a webhook request with a valid signature the events are processed
\* in order, a non-text event gets no reply and a text-message event at most
\* one; the answer is 200 "OK" exactly when every text-message event got its
\* reply and 500 "Error" when a send failed, and then the earlier replies stay
\* sent and no later event is processed. While the request is handled a reply
\* that was sent stays in the log.
C11_EventLoop ==
    /\ []C11_EventLoopState
    /\ [][(ValidWebhook /\ pc # "done") =>
            (Len(replies') >= Len(replies)
             /\ SubSeq(replies', 1, Len(replies)) = replies)]_vars

C11_Witness ==
    /\ ValidWebhook
    /\ pc = "done"
    /\ Len(events) = 2
    /\ TextEvents = {1, 2}
    /\ Len(replies) = 2
    /\ replies[1].result = "ok"
    /\ replies[2].result = "api_error"
    /\ resp.status = 500

====
